---- MODULE Spec2Model ----
(***************************************************************************)
(* Model of downloader/download.py: the pipeline of main() -- label        *)
(* resolution (get_ooi_labelmap), candidate selection and fetch-target     *)
(* building (generate_download_list), sampling (random.sample) and the     *)
(* pool of four workers running fetch_url (download_objects_of_interest).  *)
(*                                                                         *)
(* Strings are sequences of characters (one-character TLA+ strings); the   *)
(* suffix ".jpg" is kept as one element, since no operation of the program *)
(* looks inside it.                                                        *)
(***************************************************************************)
EXTENDS Integers, Sequences, FiniteSets, TLC

VARIABLES
    labelmap_csv,     \* rows <<code, name>> of the LABELMAP file
    annotations_csv,  \* rows [ImageID, LabelName, IsOccluded] of the ANNOTATIONS file
    image_url,        \* df_images['image_url'][0]
    OBJECTS,          \* args.objects
    NOT_STRICT,       \* args.notstrict
    NOT_OCCLUDED,     \* args.notoccluded
    LIMIT,            \* int(args.max)
    dir,              \* the file names present in OUTPUT_DIR
    pc,               \* position of main()
    base_url,         \* main: base_url
    ooi_labelmap,     \* main: ooi_labelmap, a dict name -> code
    df_download,      \* generate_download_list: df_download
    existing_images,  \* generate_download_list: existing_images
    url_download_list,\* the list generate_download_list returned
    download_list,    \* main: download_list as handed to download_objects_of_interest
    taskq,            \* pool: targets not yet taken by a worker
    inflight,         \* pool: pairs <<worker, url>> of fetches that are running
    results,          \* pool: values returned by fetch_url, in completion order
    fetched,          \* history: records [url, file, ret] of every finished fetch_url call
    failures,         \* main: failures
    error             \* the exception that ended main(), if any

vars == <<labelmap_csv, annotations_csv, image_url, OBJECTS, NOT_STRICT, NOT_OCCLUDED,
          LIMIT, dir, pc, base_url, ooi_labelmap, df_download, existing_images,
          url_download_list, download_list, taskq, inflight, results, fetched,
          failures, error>>

inputs == <<labelmap_csv, annotations_csv, image_url, OBJECTS, NOT_STRICT,
            NOT_OCCLUDED, LIMIT>>

----------------------------------------------------------------------------
(* Python values and string operations *)

None == <<"None">>

JPG == ".jpg"

Range(s) == {s[i] : i \in DOMAIN s}

SeqsUpTo(S, n) == UNION {[1..k -> S] : k \in 0..n}

Min(a, b) == IF a < b THEN a ELSE b

\* str.lower, one character
char_lower(c) ==
    CASE c = "D" -> "d"
      [] c = "C" -> "c"
      [] c = "W" -> "w"
      [] OTHER -> c

\* str.lower
str_lower(s) == [i \in 1..Len(s) |-> char_lower(s[i])]

\* s.find(sep): the first index of sep in s, 0 when there is none
find(s, sep) ==
    IF \E i \in 1..Len(s) : s[i] = sep
    THEN CHOOSE i \in 1..Len(s) : s[i] = sep /\ \A j \in 1..(i-1) : s[j] # sep
    ELSE 0

\* s.rfind(sep): the last index of sep in s, 0 when there is none
rfind(s, sep) ==
    IF \E i \in 1..Len(s) : s[i] = sep
    THEN CHOOSE i \in 1..Len(s) : s[i] = sep /\ \A j \in (i+1)..Len(s) : s[j] # sep
    ELSE 0

\* s.split(sep) for a one-character separator: the list of the segments
RECURSIVE split(_, _)
split(s, sep) ==
    LET i == find(s, sep) IN
    IF i = 0 THEN <<s>>
    ELSE <<SubSeq(s, 1, i-1)>> \o split(SubSeq(s, i+1, Len(s)), sep)

\* s.rstrip(c)
RECURSIVE rstrip(_, _)
rstrip(s, c) ==
    IF Len(s) > 0 /\ s[Len(s)] = c THEN rstrip(SubSeq(s, 1, Len(s)-1), c) ELSE s

\* posixpath.dirname
dirname(p) ==
    LET i == rfind(p, "/")
        head == SubSeq(p, 1, i)
    IN  IF head # <<>> /\ \E k \in 1..Len(head) : head[k] # "/"
        THEN rstrip(head, "/") ELSE head

\* posixpath.join of two components
path_join(a, b) ==
    IF Len(b) > 0 /\ b[1] = "/" THEN b
    ELSE IF a = <<>> \/ a[Len(a)] = "/" THEN a \o b
    ELSE a \o <<"/">> \o b

\* a dict is a function from its keys; d[k] = v
EmptyDict == <<>>
dict_set(d, k, v) == [x \in (DOMAIN d) \cup {k} |-> IF x = k THEN v ELSE d[x]]
dict_values(d) == {d[k] : k \in DOMAIN d}

\* bool(x) of an argparse value: None and the empty string are false
truthy(x) == x # None /\ x # <<>>

----------------------------------------------------------------------------
(* get_ooi_labelmap *)

\* lines 66-68: the loop over labelmap.iterrows(), from row i on
RECURSIVE iterrows_loop(_, _, _, _)
iterrows_loop(labelmap, objects, i, object_codes) ==
    IF i > Len(labelmap) THEN object_codes
    ELSE LET row == labelmap[i]
             tokens == Range(split(str_lower(row[2]), " "))
             hit == \E k \in DOMAIN objects : str_lower(objects[k]) \in tokens
         IN  iterrows_loop(labelmap, objects, i + 1,
                 IF hit THEN dict_set(object_codes, str_lower(row[2]), row[1])
                 ELSE object_codes)

\* line 70: labelmap['name'].apply(str.lower)
lower_names(labelmap) ==
    [i \in DOMAIN labelmap |-> <<labelmap[i][1], str_lower(labelmap[i][2])>>]

\* line 71, .loc[OBJECTS]: for each requested label in turn, every row it indexes
RECURSIVE loc(_, _, _)
loc(indexed, objects, k) ==
    IF k > Len(objects) THEN <<>>
    ELSE SelectSeq(indexed, LAMBDA row : row[2] = objects[k]) \o loc(indexed, objects, k + 1)

\* a lookup that skips the labels it does not find
not_in_index_skipped(indexed, objects) == {}

\* line 71, .loc[OBJECTS]: the labels that index no row (the KeyError names them)
not_in_index(indexed, objects) ==
    {objects[k] : k \in DOMAIN objects} \ {indexed[i][2] : i \in DOMAIN indexed}

\* line 71, .to_dict()['code']: a later row of the same name replaces an earlier one
RECURSIVE to_dict(_, _, _)
to_dict(rows, i, d) ==
    IF i > Len(rows) THEN d
    ELSE to_dict(rows, i + 1, dict_set(d, rows[i][2], rows[i][1]))

NoError == [type |-> "None", names |-> {}]

\* the function: its return value, or the KeyError it raises
get_ooi_labelmap(labelmap, objects, not_strict) ==
    IF not_strict # None
    THEN [raised |-> NoError,
          value |-> iterrows_loop(labelmap, objects, 1, EmptyDict)]
    ELSE LET indexed == lower_names(labelmap)
             missing == not_in_index(indexed, objects)
         IN  IF missing # {}
             THEN [raised |-> [type |-> "KeyError", names |-> missing],
                   value |-> EmptyDict]
             ELSE [raised |-> NoError,
                   value |-> to_dict(loc(indexed, objects, 1), 1, EmptyDict)]

----------------------------------------------------------------------------
(* generate_download_list *)

\* Series.unique(): the distinct values in order of first appearance
RECURSIVE unique(_)
unique(s) ==
    IF s = <<>> THEN <<>>
    ELSE LET front == unique(SubSeq(s, 1, Len(s) - 1))
             last == s[Len(s)]
         IN  IF last \in Range(front) THEN front ELSE Append(front, last)

\* a filter that is never applied
occlusion_filter_ignored(annotations, not_occluded) == annotations

\* lines 90-91: the occlusion filter
occlusion_filter(annotations, not_occluded) ==
    IF truthy(not_occluded)
    THEN SelectSeq(annotations, LAMBDA row : row.IsOccluded = 0)
    ELSE annotations

\* lines 87-92: the ImageIDs selected
select_image_ids(annotations, labelmap, not_occluded) ==
    LET label_names == dict_values(labelmap)
        kept == occlusion_filter(annotations, not_occluded)
        rows == SelectSeq(kept, LAMBDA row : row.LabelName \in label_names)
    IN  unique([i \in DOMAIN rows |-> rows[i].ImageID])

\* line 101
image_name_of(image_id) == image_id \o <<JPG>>

\* lines 99-107: the loop over df_download, from position i on
RECURSIVE build_urls(_, _, _, _)
build_urls(ids, existing, base, i) ==
    IF i > Len(ids) THEN <<>>
    ELSE LET image_name == image_name_of(ids[i])
             rest == build_urls(ids, existing, base, i + 1)
         IN  IF image_name \notin existing
             THEN <<path_join(base, image_name)>> \o rest
             ELSE rest

----------------------------------------------------------------------------
(* fetch_url *)

\* line 114: url.split("/")[-1], the file the fetch writes in OUTPUT_DIR
local_file(url) == LET parts == split(url, "/") IN parts[Len(parts)]

\* a fetch_url that reports every fetch as a success
fetch_url_always_zero(outcome) == [ret |-> 0, raised |-> FALSE]

\* a fetch_url without its try/except: the exception of urlretrieve leaves it
fetch_url_uncaught(outcome) ==
    [ret |-> IF outcome = "ok" THEN 0 ELSE 1, raised |-> outcome # "ok"]

\* lines 113-117: the value fetch_url returns for the outcome of urlretrieve, and
\* whether an exception leaves the function
fetch_url(outcome) ==
    [ret |-> IF outcome = "ok" THEN 0 ELSE 1, raised |-> FALSE]

\* urlretrieve: it returns, or raises before the file is opened, or raises after
\* (a partial file stays in OUTPUT_DIR)
Outcomes == {"ok", "error", "error_partial"}

----------------------------------------------------------------------------
(* download_objects_of_interest and main *)

\* line 121: Pool(4)
POOL_SIZE == 4

Workers == 1..POOL_SIZE

\* a worker that takes a task while it is running one
idle_always(w) == TRUE

\* a pool worker runs one task at a time: it takes the next one when it has none
idle(w) == \A p \in inflight : p[1] # w

\* a sample drawn with replacement
random_choices(population, k) == [1..k -> Range(population)]

\* line 148: random.sample(population, k), every list it can return
random_sample(population, k) ==
    LET n == Len(population)
        picks == {p \in [1..k -> 1..n] : \A i, j \in 1..k : i # j => p[i] # p[j]}
    IN  {[i \in 1..k |-> population[p[i]]] : p \in picks}

\* line 122: sum(...) of the values the workers returned
RECURSIVE sum(_)
sum(rs) == IF rs = <<>> THEN 0 ELSE rs[1].ret + sum(Tail(rs))

\* lines 129-134
MainResolve ==
    /\ pc = "main"
    /\ base_url' = dirname(image_url)
    /\ LET r == get_ooi_labelmap(labelmap_csv, OBJECTS, NOT_STRICT) IN
         IF r.raised # NoError
         THEN /\ error' = r.raised
              /\ pc' = "error"
              /\ UNCHANGED ooi_labelmap
         ELSE /\ ooi_labelmap' = r.value
              /\ pc' = "generate"
              /\ UNCHANGED error
    /\ UNCHANGED <<inputs, dir, df_download, existing_images, url_download_list,
                   download_list, taskq, inflight, results, fetched, failures>>

\* lines 137-144: generate_download_list
MainGenerate ==
    /\ pc = "generate"
    /\ df_download' = select_image_ids(annotations_csv, ooi_labelmap, NOT_OCCLUDED)
    /\ existing_images' = dir
    /\ url_download_list' = build_urls(df_download', existing_images', base_url, 1)
    /\ pc' = "sample"
    /\ UNCHANGED <<inputs, dir, base_url, ooi_labelmap, download_list, taskq, inflight,
                   results, fetched, failures, error>>

\* lines 147-148
MainSample ==
    /\ pc = "sample"
    /\ IF LIMIT < Len(url_download_list)
       THEN IF LIMIT < 0
            THEN /\ error' = [type |-> "ValueError", names |-> {}]
                 /\ pc' = "error"
                 /\ UNCHANGED download_list
            ELSE /\ download_list' \in random_sample(url_download_list, LIMIT)
                 /\ pc' = "download"
                 /\ UNCHANGED error
       ELSE /\ download_list' = url_download_list
            /\ pc' = "download"
            /\ UNCHANGED error
    /\ UNCHANGED <<inputs, dir, base_url, ooi_labelmap, df_download, existing_images,
                   url_download_list, taskq, inflight, results, fetched, failures>>

\* lines 121-122: the pool is created and imap_unordered queues the targets
DownloadStart ==
    /\ pc = "download"
    /\ taskq' = download_list
    /\ pc' = "pool"
    /\ UNCHANGED <<inputs, dir, base_url, ooi_labelmap, df_download, existing_images,
                   url_download_list, download_list, inflight, results, fetched,
                   failures, error>>

\* a worker takes the next target from the queue and calls fetch_url on it
WorkerTake(w) ==
    /\ pc = "pool"
    /\ idle(w)
    /\ taskq # <<>>
    /\ inflight' = inflight \cup {<<w, Head(taskq)>>}
    /\ taskq' = Tail(taskq)
    /\ UNCHANGED <<inputs, dir, pc, base_url, ooi_labelmap, df_download,
                   existing_images, url_download_list, download_list, results,
                   fetched, failures, error>>

\* lines 112-117: the fetch_url call of worker w ends
WorkerFinish(w) ==
    /\ pc = "pool"
    /\ \E p \in inflight, outcome \in Outcomes :
         /\ p[1] = w
         /\ inflight' = inflight \ {p}
         /\ dir' = IF outcome = "error" THEN dir ELSE dir \cup {local_file(p[2])}
         /\ results' = Append(results, fetch_url(outcome))
         /\ fetched' = fetched \cup
                {[url |-> p[2], file |-> local_file(p[2]), outcome |-> outcome]}
    /\ UNCHANGED <<inputs, pc, base_url, ooi_labelmap, df_download, existing_images,
                   url_download_list, download_list, taskq, failures, error>>

\* lines 122-124 and 153: sum() has consumed every result, or met an exception
MainFinish ==
    /\ pc = "pool"
    /\ LET raised == \E i \in DOMAIN results : results[i].raised IN
         /\ raised \/ Len(results) = Len(download_list)
         /\ IF raised
            THEN /\ error' = [type |-> "Exception", names |-> {}]
                 /\ pc' = "error"
                 /\ UNCHANGED failures
            ELSE /\ failures' = sum(results)
                 /\ pc' = "done"
                 /\ UNCHANGED error
    /\ UNCHANGED <<inputs, dir, base_url, ooi_labelmap, df_download, existing_images,
                   url_download_list, download_list, taskq, inflight, results, fetched>>

Next ==
    \/ MainResolve
    \/ MainGenerate
    \/ MainSample
    \/ DownloadStart
    \/ \E w \in Workers : WorkerTake(w)
    \/ \E w \in Workers : WorkerFinish(w)
    \/ MainFinish

----------------------------------------------------------------------------
(* Inputs *)

\* the state of main() before its first statement
Start ==
    /\ pc = "main"
    /\ base_url = <<>>
    /\ ooi_labelmap = EmptyDict
    /\ df_download = <<>>
    /\ existing_images = {}
    /\ url_download_list = <<>>
    /\ download_list = <<>>
    /\ taskq = <<>>
    /\ inflight = {}
    /\ results = <<>>
    /\ fetched = {}
    /\ failures = 0
    /\ error = NoError

MaxRows == 3
MaxLimit == 2

\* "Dog", "cat", "dog whistle"
Vocabulary == << <<"m1", <<"D">>>>, <<"m2", <<"c">>>>, <<"m3", <<"d", " ", "w">>>> >>

\* ImageIDs: "a", "b", "x/a"
ImageIds == {<<"a">>, <<"b">>, <<"x", "/", "a">>}

\* first rows of the images file: "h/t/i", "h//i"
ImageUrls == {<<"h", "/", "t", "/", "i">>, <<"h", "/", "/", "i">>}

row(id, label, occ) == [ImageID |-> id, LabelName |-> label, IsOccluded |-> occ]

Init ==
    /\ labelmap_csv = Vocabulary
    /\ OBJECTS \in {<<<<"d">>>>, <<<<"b">>>>, <<<<"d">>, <<"c">>>>}
    /\ NOT_STRICT \in {None, <<"1">>}
    /\ NOT_OCCLUDED = None
    /\ LIMIT \in (-1)..MaxLimit
    /\ image_url \in ImageUrls
    /\ \E ids \in SeqsUpTo(ImageIds, MaxRows) :
         annotations_csv = [i \in DOMAIN ids |-> row(ids[i], "m1", 0)]
    /\ dir \in SUBSET {<<"a", JPG>>, <<"b", JPG>>}
    /\ Start

Spec == Init /\ [][Next]_vars

\* label resolution alone: main() up to line 134, over vocabularies and requests
MaxVocab == 2
MaxObjects == 2

ResolveInit ==
    /\ labelmap_csv \in SeqsUpTo({"m1", "m2"} \X {<<"D">>, <<"d">>, <<"c">>, <<"d", " ", "w">>},
                                 MaxVocab)
    /\ OBJECTS \in SeqsUpTo({<<"d">>, <<"D">>, <<"c">>}, MaxObjects) \ {<<>>}
    /\ NOT_STRICT \in {None, <<>>, <<"1">>}
    /\ NOT_OCCLUDED = None
    /\ LIMIT = 1
    /\ image_url \in ImageUrls
    /\ annotations_csv = <<>>
    /\ dir = {}
    /\ Start

ResolveNext == MainResolve

ResolveSpec == ResolveInit /\ [][ResolveNext]_vars

\* candidate selection: main() up to line 144, over annotation tables
MaxAnnotations == 3

SelectInit ==
    /\ labelmap_csv = Vocabulary
    /\ OBJECTS \in {<<<<"d">>>>, <<<<"d">>, <<"c">>>>}
    /\ NOT_STRICT = None
    /\ NOT_OCCLUDED \in {None, <<>>, <<"1">>}
    /\ LIMIT = 1
    /\ image_url = <<"h", "/", "t", "/", "i">>
    /\ annotations_csv \in
         SeqsUpTo({row(id, label, occ) : id \in {<<"a">>, <<"b">>},
                                         label \in {"m1", "m2"}, occ \in {-1, 0, 1}},
                  MaxAnnotations)
    /\ dir = {}
    /\ Start

SelectNext == MainResolve \/ MainGenerate

SelectSpec == SelectInit /\ [][SelectNext]_vars

\* the pool: batches larger than the pool, every fetch ending at some time
MaxImages == 5

\* the n-th ImageID of a batch: "a", "aa", "aaa", ...
nth_id(n) == [j \in 1..n |-> "a"]

PoolInit ==
    /\ labelmap_csv = Vocabulary
    /\ OBJECTS = <<<<"d">>>>
    /\ NOT_STRICT = None
    /\ NOT_OCCLUDED = None
    /\ LIMIT = MaxImages
    /\ image_url = <<"h", "/", "t", "/", "i">>
    /\ \E n \in 0..MaxImages :
         annotations_csv = [i \in 1..n |-> row(nth_id(i), "m1", 0)]
    /\ dir = {}
    /\ Start

PoolSpec == PoolInit /\ [][Next]_vars

\* the same run under fairness: every process of the run is scheduled, and every
\* urlretrieve call returns or raises
MaxFairImages == 4

FairPoolInit ==
    /\ labelmap_csv = Vocabulary
    /\ OBJECTS = <<<<"d">>>>
    /\ NOT_STRICT = None
    /\ NOT_OCCLUDED = None
    /\ LIMIT = MaxFairImages
    /\ image_url = <<"h", "/", "t", "/", "i">>
    /\ \E n \in 0..MaxFairImages :
         annotations_csv = [i \in 1..n |-> row(nth_id(i), "m1", 0)]
    /\ dir = {}
    /\ Start

FairPoolSpec == FairPoolInit /\ [][Next]_vars /\ WF_vars(Next)

----------------------------------------------------------------------------
(* Properties of the whole run, checked under Spec *)

\* the targets whose fetch_url call has ended with urlretrieve raising
failed_targets == {f.url : f \in {g \in fetched : g.outcome # "ok"}}

\* C1: the value download_objects_of_interest returns is the number of targets whose
\* fetch raised, whatever the order of the list and of the completions: 0 when every
\* fetch succeeded, the batch size when every fetch failed; and a failing fetch
\* never ends the run with an exception.
C1_FailureCount ==
    /\ pc = "done" =>
         /\ failures = Cardinality(failed_targets)
         /\ (\A f \in fetched : f.outcome = "ok") => failures = 0
         /\ (\A f \in fetched : f.outcome # "ok") => failures = Len(download_list)
    /\ failed_targets # {} => pc \in {"pool", "done"}

C1_Witness ==
    /\ pc = "done"
    /\ Len(download_list) = 2
    /\ failures = 1

\* the requested names that equal no lowercased name of the vocabulary
unmatched ==
    Range(OBJECTS) \ {str_lower(labelmap_csv[i][2]) : i \in DOMAIN labelmap_csv}

\* C2: in strict mode with a requested name that has no exact match, the only step
\* of the run ends it with a KeyError naming that name: no list is built, no fetch
\* is queued or started, and the output directory is not written.
C2_StrictAbort ==
    /\ [](NOT_STRICT = None /\ unmatched # {} => pc \in {"main", "error"})
    /\ [][NOT_STRICT = None /\ unmatched # {} =>
            /\ pc' = "error"
            /\ error'.type = "KeyError"
            /\ unmatched \subseteq error'.names
            /\ dir' = dir
            /\ taskq' = <<>> /\ inflight' = {} /\ fetched' = {}]_vars

C2_Witness ==
    /\ NOT_STRICT = None
    /\ pc = "error"
    /\ error.type = "KeyError"
    /\ <<"b">> \in error.names

\* C6 as stated: a target is built for an identifier exactly when identifier + ".jpg"
\* is not in the snapshot, no fetch ever writes a file name of the snapshot, and
\* building the list leaves the directory as it was.
C6_SnapshotExcluded ==
    pc \in {"sample", "download", "pool", "done"} =>
        /\ \A i \in DOMAIN df_download :
             (path_join(base_url, image_name_of(df_download[i])) \in Range(url_download_list))
                <=> (image_name_of(df_download[i]) \notin existing_images)
        /\ \A p \in inflight : local_file(p[2]) \notin existing_images
        /\ \A f \in fetched : f.file \notin existing_images
        /\ pc = "sample" => dir = existing_images

\* C7: the batch handed to the executor has size min(|L|, M); it is L when
\* |L| <= M, and otherwise M distinct targets of L.
C7_Sample ==
    pc \in {"download", "pool", "done"} =>
        /\ Len(download_list) = Min(Len(url_download_list), LIMIT)
        /\ Len(url_download_list) <= LIMIT => download_list = url_download_list
        /\ Len(url_download_list) > LIMIT =>
             /\ Len(download_list) = LIMIT
             /\ Range(download_list) \subseteq Range(url_download_list)
             /\ \A i, j \in DOMAIN download_list :
                  i # j => download_list[i] # download_list[j]

C7_Witness ==
    /\ pc = "download"
    /\ LIMIT = 2
    /\ Len(url_download_list) = 3
    /\ download_list[1] = url_download_list[3]

\* C10 as stated: the file name fetch_url derives from a target is identifier +
\* ".jpg", distinct targets have distinct file names, no two running fetches write
\* one file, and no file is written for two targets.
C10_DisjointFiles ==
    pc \in {"sample", "download", "pool", "done"} =>
        /\ \A i \in DOMAIN df_download :
             local_file(path_join(base_url, image_name_of(df_download[i])))
                = image_name_of(df_download[i])
        /\ \A i, j \in DOMAIN download_list :
             i # j => local_file(download_list[i]) # local_file(download_list[j])
        /\ \A p, q \in inflight : p # q => local_file(p[2]) # local_file(q[2])
        /\ \A f, g \in fetched : f.url # g.url => f.file # g.file

----------------------------------------------------------------------------
(* Label resolution, checked under ResolveSpec *)

\* the vocabulary entries whose lowercased name is a lowercased requested name
exact_matches ==
    {i \in DOMAIN labelmap_csv :
        str_lower(labelmap_csv[i][2]) \in {str_lower(OBJECTS[k]) : k \in DOMAIN OBJECTS}}

\* C3 as stated: in strict mode, when every requested name resolves, the codes
\* returned are exactly the codes of the entries whose lowercased name is a
\* lowercased requested name.
C3_StrictCodes ==
    NOT_STRICT = None /\ pc = "generate" =>
        dict_values(ooi_labelmap) = {labelmap_csv[i][1] : i \in exact_matches}

\* the vocabulary entries one of whose space-delimited tokens is a lowercased
\* requested name
token_matches ==
    {i \in DOMAIN labelmap_csv :
        \E k \in DOMAIN OBJECTS :
            str_lower(OBJECTS[k]) \in Range(split(str_lower(labelmap_csv[i][2]), " "))}

\* C4 as stated: in permissive mode the resolved codes are the codes of the entries
\* with a token equal to a lowercased requested name, those of every such entry and
\* of no other, and no request raises an error.
C4_PermissiveCodes ==
    NOT_STRICT # None =>
        /\ pc # "error"
        /\ pc = "generate" =>
             dict_values(ooi_labelmap) = {labelmap_csv[i][1] : i \in token_matches}

----------------------------------------------------------------------------
(* Candidate selection, checked under SelectSpec *)

\* the rows generate_download_list is to consider
counted(r) ==
    /\ r.LabelName \in dict_values(ooi_labelmap)
    /\ truthy(NOT_OCCLUDED) => r.IsOccluded = 0

\* C5: the identifiers selected are the distinct ImageIDs having a row whose label
\* is a resolved code and, with the occlusion filter on, whose IsOccluded is 0; each
\* is selected once.
C5_Selection ==
    pc = "sample" =>
        /\ Range(df_download) =
             {annotations_csv[i].ImageID :
                 i \in {j \in DOMAIN annotations_csv : counted(annotations_csv[j])}}
        /\ \A i, j \in DOMAIN df_download : i # j => df_download[i] # df_download[j]

C5_Witness ==
    /\ pc = "sample"
    /\ truthy(NOT_OCCLUDED)
    /\ Len(annotations_csv) = 3
    /\ df_download = <<<<"a">>>>
    /\ \A i \in 1..2 : annotations_csv[i].ImageID = <<"a">> /\ counted(annotations_csv[i])
    /\ annotations_csv[3] = row(<<"b">>, "m1", 1)

----------------------------------------------------------------------------
(* The pool, checked under PoolSpec and FairPoolSpec *)

\* C8: at most POOL_SIZE fetches are in flight, and a worker has at most one.
C8_PoolBound ==
    /\ Cardinality(inflight) <= 4
    /\ \A p, q \in inflight : p[1] = q[1] => p = q

C8_Witness ==
    /\ Cardinality(inflight) = 4
    /\ taskq # <<>>

\* C9: a started batch ends with a failure count; by then every target was fetched
\* exactly once; a target whose fetch has ended, with a failure or not, is not
\* queued or fetched again.
C9_Completion ==
    /\ (pc = "pool") ~> (pc = "done")
    /\ [](pc = "done" =>
            /\ Len(results) = Len(download_list)
            /\ \A i \in DOMAIN download_list :
                 Cardinality({f \in fetched : f.url = download_list[i]}) = 1)
    /\ [](\A f \in fetched :
            /\ f.url \notin Range(taskq)
            /\ \A p \in inflight : p[2] # f.url)

C9_Witness ==
    /\ pc = "done"
    /\ Len(download_list) = 4
    /\ failures = 2
    /\ results[1].ret = 1

----------------------------------------------------------------------------
(* What holds of the statements above that the code does not meet *)

\* no ImageID of the annotations contains "/"
NoSlashInIds ==
    \A i \in DOMAIN annotations_csv : "/" \notin Range(annotations_csv[i].ImageID)

\* the statements of C6 and C10 hold in the runs whose ImageIDs contain no "/"
SnapshotExcluded_NoSlash == NoSlashInIds => C6_SnapshotExcluded /\ C10_DisjointFiles

\* no two entries of the vocabulary have the same lowercased name
DistinctNames ==
    \A i, j \in DOMAIN labelmap_csv :
        i # j => str_lower(labelmap_csv[i][2]) # str_lower(labelmap_csv[j][2])

\* the statements of C3 and C4 hold for the vocabularies without such entries
Codes_DistinctNames == DistinctNames => C3_StrictCodes /\ C4_PermissiveCodes

====
